---- MODULE Spec2Model ----
(***************************************************************************)
(* The garden scene of nextjs-webxr: the XRScene function component, the   *)
(* placement computations embedded in it, and the four generator           *)
(* components (Tree, Flower, FruitPlant, SmallPlant) with their useMemo    *)
(* cells.                                                                  *)
(*                                                                         *)
(* Numbers.  Math.random() returns k/RandRes for k in 0..RandRes-1, so it  *)
(* is in [0, 1) and reaches 0.  Every quantity c + d*random of the source  *)
(* is kept exactly, as the integer numerator of a fraction over            *)
(* 1000*RandRes: Fixed(c, d, k) with c and d in thousandths.  An angle is  *)
(* kept as a fraction of a full turn, [num, den] standing for              *)
(* (num/den) * 2*PI; positions are kept in the polar form the source       *)
(* computes them from (x = cos(angle)*distance, z = sin(angle)*distance).  *)
(***************************************************************************)
EXTENDS Integers, Sequences, FiniteSets, TLC

RandRes == 3       \* resolution of Math.random()
MaxCalls == 2      \* calls of XRScene (mounts and re-renders) in one behaviour
MaxClicks == 1     \* clicks on the exit button in one behaviour
MaxN == 3          \* largest count the placement schemes are tried on besides the scene's

VARIABLES
  rng,        \* state of the generator behind Math.random(): [x, a]
  pc,         \* "unmounted" | "children" | "idle" | "unmounting"
  cursor,     \* <<block, item>> of the next child to render or to unmount
  onExitXR,   \* the onExitXR prop of the latest XRScene call: supplied or not
  exitButton, \* the "Exit XR Mode" button is in the document
  clicks,     \* user clicks on the exit button so far
  exitCalls,  \* invocations of the onExitXR callback so far
  xrSession,  \* session held by the module-level xrStore
  elements,   \* output of the latest XRScene call: group -> sequence of descriptors
  inst,       \* live generator instances: key -> [component, hooks, props, renderCount]
  calls       \* calls of XRScene so far

vars == <<rng, pc, cursor, onExitXR, exitButton, clicks, exitCalls, xrSession,
          elements, inst, calls>>

(***************************************************************************)
(* Math.random().  The hidden generator state is [x, a]: a call returns    *)
(* x/RandRes and leaves x + a (mod RandRes).  The seed [x, a] is arbitrary,*)
(* so every value of a draw and every pair of values of two consecutive    *)
(* draws occurs.                                                           *)
(***************************************************************************)
Seeds == [x : 0..(RandRes - 1), a : 0..(RandRes - 1)]

\* numerator (over RandRes) of the n-th next value of Math.random(), n = 0, 1, ...
MathRandom(s, n) == (s.x + n * s.a) % RandRes

\* generator state after n calls
Advance(s, n) == [x |-> (s.x + n * s.a) % RandRes, a |-> s.a]

\* c/1000 + (d/1000) * (k/RandRes), as a numerator over 1000*RandRes
Fixed(c, d, k) == c * RandRes + d * k

\* Math.floor(Math.random() * len) for the draw k/RandRes
FloorScaled(k, len) == (k * len) \div RandRes

\* (k/RandRes) * Math.PI * 2
RandomAngle(k) == [num |-> k, den |-> RandRes]

Undefined == [undefined |-> TRUE]


(***************************************************************************)
(* Placement.  XRScene holds six inline map() blocks; each is one call     *)
(* site of a sampling scheme with its own count, radius band and           *)
(* component.  base and span are in thousandths: distance = base + r*span. *)
(***************************************************************************)
GroupOrder == <<"flower", "fruit", "tree", "small", "flower-extra", "fruit-extra">>

Site(g) ==
  CASE g = "flower"       -> [component |-> "Flower",     policy |-> "ring", count |-> 20,
                              base |-> 2500, span |-> 1500, rotation |-> TRUE]
    [] g = "fruit"        -> [component |-> "FruitPlant", policy |-> "ring", count |-> 15,
                              base |-> 4000, span |-> 2000, rotation |-> TRUE]
    [] g = "tree"         -> [component |-> "Tree",       policy |-> "ring", count |-> 12,
                              base |-> 6500, span |-> 2000, rotation |-> TRUE]
    [] g = "small"        -> [component |-> "SmallPlant", policy |-> "disc", count |-> 40,
                              base |-> 1500, span |-> 7000, rotation |-> FALSE]
    [] g = "flower-extra" -> [component |-> "Flower",     policy |-> "disc", count |-> 25,
                              base |-> 1500, span |-> 6000, rotation |-> TRUE]
    [] g = "fruit-extra"  -> [component |-> "FruitPlant", policy |-> "disc", count |-> 18,
                              base |-> 2000, span |-> 5000, rotation |-> TRUE]

\* key={`${g}-${i}`}
Key(g, i) == [prefix |-> g, index |-> i]

\* calls of Math.random() one iteration of the block makes
DrawsPerItem(site) == IF site.policy = "disc" /\ site.rotation THEN 3 ELSE 2

\* a ring block that takes the band's upper end for the width of the jitter
RingItemWide(g, site, N, s, i) ==
  LET angle    == [num |-> i, den |-> N]
      distance == Fixed(site.base, site.base + site.span, MathRandom(s, 2 * i))
      rotation == RandomAngle(MathRandom(s, 2 * i + 1))
  IN  [key |-> Key(g, i), component |-> site.component, policy |-> "ring",
       position |-> [angle |-> angle, distance |-> distance, y |-> -1],
       rotation |-> rotation]

\* a ring block that draws the angle as the disc blocks do
RingItemJitter(g, site, N, s, i) ==
  LET angle    == RandomAngle(MathRandom(s, 2 * i))
      distance == Fixed(site.base, site.span, MathRandom(s, 2 * i))
      rotation == RandomAngle(MathRandom(s, 2 * i + 1))
  IN  [key |-> Key(g, i), component |-> site.component, policy |-> "ring",
       position |-> [angle |-> angle, distance |-> distance, y |-> -1],
       rotation |-> rotation]

\* a ring block whose jitter pulls the item towards the centre
RingItemInward(g, site, N, s, i) ==
  LET angle    == [num |-> i, den |-> N]
      distance == Fixed(site.base, 0 - site.span, MathRandom(s, 2 * i))
      rotation == RandomAngle(MathRandom(s, 2 * i + 1))
  IN  [key |-> Key(g, i), component |-> site.component, policy |-> "ring",
       position |-> [angle |-> angle, distance |-> distance, y |-> -1],
       rotation |-> rotation]

\* iteration i (from 0) of a ring block of N items: the angle comes from the index
RingItem(g, site, N, s, i) ==
  LET angle    == [num |-> i, den |-> N]
      distance == Fixed(site.base, site.span, MathRandom(s, 2 * i))
      rotation == RandomAngle(MathRandom(s, 2 * i + 1))
  IN  [key |-> Key(g, i), component |-> site.component, policy |-> "ring",
       position |-> [angle |-> angle, distance |-> distance, y |-> -1],
       rotation |-> rotation]

\* a disc block that reuses the draw of the angle for the distance
DiscItemSameDraw(g, site, N, s, i) ==
  LET n        == DrawsPerItem(site)
      r        == MathRandom(s, n * i)
      angle    == RandomAngle(r)
      distance == Fixed(site.base, site.span, r)
      rotation == IF site.rotation THEN RandomAngle(MathRandom(s, n * i + 2))
                                   ELSE Undefined
  IN  [key |-> Key(g, i), component |-> site.component, policy |-> "disc",
       position |-> [angle |-> angle, distance |-> distance, y |-> -1],
       rotation |-> rotation]

\* a disc block that scatters from the centre outwards, up to the outer radius
DiscItemFromCentre(g, site, N, s, i) ==
  LET n        == DrawsPerItem(site)
      angle    == RandomAngle(MathRandom(s, n * i))
      distance == Fixed(0, site.base + site.span, MathRandom(s, n * i + 1))
      rotation == IF site.rotation THEN RandomAngle(MathRandom(s, n * i + 2))
                                   ELSE Undefined
  IN  [key |-> Key(g, i), component |-> site.component, policy |-> "disc",
       position |-> [angle |-> angle, distance |-> distance, y |-> -1],
       rotation |-> rotation]

\* iteration i (from 0) of a disc block: angle, distance (and rotation) are all drawn
DiscItem(g, site, N, s, i) ==
  LET n        == DrawsPerItem(site)
      angle    == RandomAngle(MathRandom(s, n * i))
      distance == Fixed(site.base, site.span, MathRandom(s, n * i + 1))
      rotation == IF site.rotation THEN RandomAngle(MathRandom(s, n * i + 2))
                                   ELSE Undefined
  IN  [key |-> Key(g, i), component |-> site.component, policy |-> "disc",
       position |-> [angle |-> angle, distance |-> distance, y |-> -1],
       rotation |-> rotation]

\* every block copied from the ring block
PlacementAllRing(g, N, s) ==
  [j \in 1..N |-> RingItem(g, Site(g), N, s, j - 1)]

\* [...Array(N)].map((_, i) => ...) of call site g, with the generator in state s
Placement(g, N, s) ==
  LET site == Site(g)
  IN  [j \in 1..N |-> IF site.policy = "ring" THEN RingItem(g, site, N, s, j - 1)
                                               ELSE DiscItem(g, site, N, s, j - 1)]

\* calls of Math.random() made by the blocks before the n-th block
RECURSIVE DrawsBefore(_)
DrawsBefore(n) ==
  IF n <= 1 THEN 0
  ELSE LET site == Site(GroupOrder[n - 1])
       IN  DrawsBefore(n - 1) + site.count * DrawsPerItem(site)

\* <Grid args={[20, 20]} position={[0, -1, 0]} ... />: a plane of 20 x 20 units
\* centred under the origin
Grid == [args |-> <<20, 20>>, position |-> <<0, -1, 0>>]

\* the generator elements one call of XRScene returns, block by block
SceneElements(s) ==
  [g \in {GroupOrder[n] : n \in 1..Len(GroupOrder)} |->
     LET n == CHOOSE m \in 1..Len(GroupOrder) : GroupOrder[m] = g
     IN  Placement(g, Site(g).count, Advance(s, DrawsBefore(n)))]

SceneDraws == DrawsBefore(Len(GroupOrder) + 1)

NoElements == [g \in {GroupOrder[n] : n \in 1..Len(GroupOrder)} |-> <<>>]

\* The children of the scene are visited in the order of the blocks and, within a
\* block, of the index: a cursor is <<block, item>>, and past the last block when done.
RECURSIVE FirstFrom(_, _)
FirstFrom(els, n) ==
  IF n > Len(GroupOrder) \/ Len(els[GroupOrder[n]]) > 0 THEN <<n, 1>>
  ELSE FirstFrom(els, n + 1)

NextChild(els, c) ==
  IF c[2] < Len(els[GroupOrder[c[1]]]) THEN <<c[1], c[2] + 1>> ELSE FirstFrom(els, c[1] + 1)

ChildAt(els, c) == els[GroupOrder[c[1]]][c[2]]

Done(c) == c[1] > Len(GroupOrder)


(***************************************************************************)
(* The generator components.  A live instance keeps its useMemo cells in   *)
(* call order; a cell is [value, deps].  A component call takes the cells  *)
(* of the previous render (<<>> at mount) and the generator state, and     *)
(* returns the cells of this render and the number of Math.random() calls  *)
(* it made.                                                                *)
(***************************************************************************)
petalColors == <<"#ff6b9d", "#ffa500", "#ffeb3b", "#4caf50", "#2196f3", "#9c27b0", "#f44336">>
fruitColors == <<"#ff4444", "#ff8800", "#ffaa00", "#ff6b35">>
greenShades == <<"#4caf50", "#2d5016", "#66bb6a", "#388e3c">>

\* the index scaled by the length of the petal palette, whatever the palette is
PickPetalLength(palette, k) ==
  LET idx == FloorScaled(k, Len(petalColors))
  IN  IF idx + 1 \in DOMAIN palette THEN palette[idx + 1] ELSE "undefined"

\* palette[Math.floor(Math.random() * palette.length)]; a miss reads undefined
Pick(palette, k) ==
  LET idx == FloorScaled(k, Len(palette))
  IN  IF idx + 1 \in DOMAIN palette THEN palette[idx + 1] ELSE "undefined"

\* a factory called without useMemo: nothing is kept from the previous render
NeverCached(prev, n, deps) == FALSE

\* useMemo keeps the n-th cell when its dependencies are those of the previous render
Cached(prev, n, deps) == n \in DOMAIN prev /\ prev[n].deps = deps

\* calls of Math.random() a one-draw factory makes in this render
Fresh(prev, n, deps) == IF Cached(prev, n, deps) THEN 0 ELSE 1

\* a Tree that takes the upper end of the range for its width
TreeTall(prev, s) ==
  LET sizeVariation ==
        IF Cached(prev, 1, <<>>) THEN prev[1]
        ELSE [value |-> Fixed(800, 1400, MathRandom(s, 0)), deps |-> <<>>]
  IN  [hooks |-> <<sizeVariation>>, used |-> Fresh(prev, 1, <<>>)]

\* sizeVariation = useMemo(() => 0.8 + Math.random() * 0.6, [])
Tree(prev, s) ==
  LET sizeVariation ==
        IF Cached(prev, 1, <<>>) THEN prev[1]
        ELSE [value |-> Fixed(800, 600, MathRandom(s, 0)), deps |-> <<>>]
  IN  [hooks |-> <<sizeVariation>>, used |-> Fresh(prev, 1, <<>>)]

\* petalColor = useMemo(() => petalColors[Math.floor(Math.random() * 7)], [])
Flower(prev, s) ==
  LET petalColor ==
        IF Cached(prev, 1, <<>>) THEN prev[1]
        ELSE [value |-> Pick(petalColors, MathRandom(s, 0)), deps |-> <<>>]
  IN  [hooks |-> <<petalColor>>, used |-> Fresh(prev, 1, <<>>)]

\* fruit meshes counted with the palette's multiplier: 4 + floor(r*6) of them
FruitsMany(heightVariation, fruitColor, s) ==
  LET fruitCount == 4 + FloorScaled(MathRandom(s, 0), 6)
  IN  [j \in 1..fruitCount |->
         [angle  |-> [turn |-> [num |-> j - 1, den |-> 6],
                      plus |-> Fixed(0, 500, MathRandom(s, 3 * (j - 1) + 1))],
          radius |-> Fixed(150, 100, MathRandom(s, 3 * (j - 1) + 2)),
          y      |-> heightVariation + Fixed(200, 400, MathRandom(s, 3 * (j - 1) + 3)),
          color  |-> fruitColor]]

\* the fruit meshes: 4 + floor(r*3) of them, each at a drawn angle, radius and height
Fruits(heightVariation, fruitColor, s) ==
  LET fruitCount == 4 + FloorScaled(MathRandom(s, 0), 3)
  IN  [j \in 1..fruitCount |->
         [angle  |-> [turn |-> [num |-> j - 1, den |-> 6],
                      plus |-> Fixed(0, 500, MathRandom(s, 3 * (j - 1) + 1))],
          radius |-> Fixed(150, 100, MathRandom(s, 3 * (j - 1) + 2)),
          y      |-> heightVariation + Fixed(200, 400, MathRandom(s, 3 * (j - 1) + 3)),
          color  |-> fruitColor]]

FruitPlant(prev, s) ==
  LET fruitColor ==
        IF Cached(prev, 1, <<>>) THEN prev[1]
        ELSE [value |-> Pick(fruitColors, MathRandom(s, 0)), deps |-> <<>>]
      u1 == Fresh(prev, 1, <<>>)
      heightVariation ==
        IF Cached(prev, 2, <<>>) THEN prev[2]
        ELSE [value |-> Fixed(700, 600, MathRandom(s, u1)), deps |-> <<>>]
      u2 == u1 + Fresh(prev, 2, <<>>)
      deps == <<heightVariation.value, fruitColor.value>>
      fruits ==
        IF Cached(prev, 3, deps) THEN prev[3]
        ELSE [value |-> Fruits(heightVariation.value, fruitColor.value, Advance(s, u2)),
              deps |-> deps]
      u3 == IF Cached(prev, 3, deps) THEN u2 ELSE u2 + 1 + 3 * Len(fruits.value)
  IN  [hooks |-> <<fruitColor, heightVariation, fruits>>, used |-> u3]

\* (Math.random() - 0.5) * d/1000
Centered(d, k) == d * k - (d \div 2) * RandRes

\* the cluster spheres: 5 + floor(r*4) of them, each with drawn x, z, y and radius
Cluster(plantColor, s) ==
  LET clusterSize == 5 + FloorScaled(MathRandom(s, 0), 4)
  IN  [j \in 1..clusterSize |->
         [x      |-> Centered(200, MathRandom(s, 4 * (j - 1) + 1)),
          z      |-> Centered(200, MathRandom(s, 4 * (j - 1) + 2)),
          y      |-> Fixed(0, 150, MathRandom(s, 4 * (j - 1) + 3)),
          radius |-> Fixed(50, 30, MathRandom(s, 4 * (j - 1) + 4)),
          color  |-> plantColor]]

SmallPlant(prev, s) ==
  LET plantColor ==
        IF Cached(prev, 1, <<>>) THEN prev[1]
        ELSE [value |-> Pick(greenShades, MathRandom(s, 0)), deps |-> <<>>]
      u1 == Fresh(prev, 1, <<>>)
      deps == <<plantColor.value>>
      cluster ==
        IF Cached(prev, 2, deps) THEN prev[2]
        ELSE [value |-> Cluster(plantColor.value, Advance(s, u1)), deps |-> deps]
      u2 == IF Cached(prev, 2, deps) THEN u1 ELSE u1 + 1 + 4 * Len(cluster.value)
  IN  [hooks |-> <<plantColor, cluster>>, used |-> u2]

\* one call of the component an element names
Component(name, prev, s) ==
  CASE name = "Tree"       -> Tree(prev, s)
    [] name = "Flower"     -> Flower(prev, s)
    [] name = "FruitPlant" -> FruitPlant(prev, s)
    [] name = "SmallPlant" -> SmallPlant(prev, s)

\* the primitives (meshes) a component call returns, counted by part
Topology(name, hooks) ==
  CASE name = "Tree"       -> [trunk |-> 1, foliage |-> 1, fruit |-> 0, petal |-> 0,
                               centre |-> 0, cluster |-> 0]
    [] name = "Flower"     -> [trunk |-> 1, foliage |-> 0, fruit |-> 0, petal |-> 6,
                               centre |-> 1, cluster |-> 0]
    [] name = "FruitPlant" -> [trunk |-> 1, foliage |-> 1, fruit |-> Len(hooks[3].value),
                               petal |-> 0, centre |-> 0, cluster |-> 0]
    [] name = "SmallPlant" -> [trunk |-> 0, foliage |-> 0, fruit |-> 0, petal |-> 0,
                               centre |-> 0, cluster |-> Len(hooks[2].value)]


(***************************************************************************)
(* The scene.  One call of the XRScene function component returns the exit *)
(* button (when the callback was supplied) and the generator elements of   *)
(* the six blocks; React then renders the children one by one, matching    *)
(* each element to the live instance of the same key.                      *)
(***************************************************************************)
NoInstances == [k \in {} |-> Undefined]

\* the button rendered without the guard
ExitButtonAlways(cb) == TRUE

\* {onExitXR && (<button onClick={onExitXR}> ...)}
ExitButtonRendered(cb) == cb

\* export function XRScene({ onExitXR }) { return ... }
XRScene(cb, s) ==
  [exitButton |-> ExitButtonRendered(cb), elements |-> SceneElements(s), used |-> SceneDraws]

KeysOf(els) == UNION {{els[g][j].key : j \in 1..Len(els[g])} : g \in DOMAIN els}

\* no instance is matched with an element: every one is unmounted
ReconcileNone(live, els) == NoInstances

\* instances whose key is no longer among the elements are unmounted
Reconcile(live, els) == [k \in (DOMAIN live) \cap KeysOf(els) |-> live[k]]

Init ==
  /\ rng \in Seeds
  /\ pc = "unmounted"
  /\ cursor = <<0, 0>>
  /\ onExitXR = FALSE
  /\ exitButton = FALSE
  /\ clicks = 0
  /\ exitCalls = 0
  /\ xrSession = "none"
  /\ elements = NoElements
  /\ inst = NoInstances
  /\ calls = 0

\* the parent mounts <XRScene onExitXR={...} /> or <XRScene />
MountScene(cb) ==
  /\ pc = "unmounted"
  /\ calls < MaxCalls
  /\ LET out == XRScene(cb, rng)
     IN  /\ elements' = out.elements
         /\ exitButton' = out.exitButton
         /\ rng' = Advance(rng, out.used)
         /\ inst' = Reconcile(inst, out.elements)
  /\ onExitXR' = cb
  /\ pc' = "children"
  /\ cursor' = FirstFrom(elements', 1)
  /\ calls' = calls + 1
  /\ UNCHANGED <<clicks, exitCalls, xrSession>>

\* the parent renders again: XRScene is called again, with the same or another prop
RerenderScene(cb) ==
  /\ pc = "idle"
  /\ calls < MaxCalls
  /\ LET out == XRScene(cb, rng)
     IN  /\ elements' = out.elements
         /\ exitButton' = out.exitButton
         /\ rng' = Advance(rng, out.used)
         /\ inst' = Reconcile(inst, out.elements)
  /\ onExitXR' = cb
  /\ pc' = "children"
  /\ cursor' = FirstFrom(elements', 1)
  /\ calls' = calls + 1
  /\ UNCHANGED <<clicks, exitCalls, xrSession>>

\* the memo cells kept per component (at module level) instead of per instance
RenderChildShared ==
  /\ pc = "children"
  /\ LET el    == ChildAt(elements, cursor)
         prev  == IF el.key \in DOMAIN inst THEN inst[el.key].hooks ELSE <<>>
         out   == Component(el.component, <<>>, rng)
         props == [position |-> el.position, rotation |-> el.rotation]
         count == IF el.key \in DOMAIN inst THEN inst[el.key].renderCount + 1 ELSE 1
         live  == [component |-> el.component, hooks |-> out.hooks, props |-> props,
                   renderCount |-> count]
         share == [k \in DOMAIN inst |->
                     IF inst[k].component = el.component
                     THEN [inst[k] EXCEPT !.hooks = out.hooks] ELSE inst[k]]
     IN  /\ inst' = IF el.key \in DOMAIN inst THEN [share EXCEPT ![el.key] = live]
                                               ELSE (el.key :> live) @@ share
         /\ rng' = Advance(rng, out.used)
  /\ cursor' = NextChild(elements, cursor)
  /\ pc' = IF Done(cursor') THEN "idle" ELSE pc
  /\ UNCHANGED <<onExitXR, exitButton, clicks, exitCalls, xrSession, elements, calls>>

\* React renders the next child element: mounts it, or re-renders the live instance
RenderChild ==
  /\ pc = "children"
  /\ LET el    == ChildAt(elements, cursor)
         prev  == IF el.key \in DOMAIN inst THEN inst[el.key].hooks ELSE <<>>
         out   == Component(el.component, prev, rng)
         props == [position |-> el.position, rotation |-> el.rotation]
         count == IF el.key \in DOMAIN inst THEN inst[el.key].renderCount + 1 ELSE 1
         live  == [component |-> el.component, hooks |-> out.hooks, props |-> props,
                   renderCount |-> count]
     IN  /\ inst' = IF el.key \in DOMAIN inst THEN [inst EXCEPT ![el.key] = live]
                                               ELSE (el.key :> live) @@ inst
         /\ rng' = Advance(rng, out.used)
  /\ cursor' = NextChild(elements, cursor)
  /\ pc' = IF Done(cursor') THEN "idle" ELSE pc
  /\ UNCHANGED <<onExitXR, exitButton, clicks, exitCalls, xrSession, elements, calls>>

\* the parent stops rendering XRScene
UnmountScene ==
  /\ pc = "idle"
  /\ pc' = "unmounting"
  /\ cursor' = FirstFrom(elements, 1)
  /\ exitButton' = FALSE
  /\ UNCHANGED <<rng, onExitXR, clicks, exitCalls, xrSession, elements, inst, calls>>

\* React drops the next child instance and its useMemo cells
UnmountChild ==
  /\ pc = "unmounting"
  /\ LET key == ChildAt(elements, cursor).key
     IN  inst' = [k \in (DOMAIN inst) \ {key} |-> inst[k]]
  /\ cursor' = NextChild(elements, cursor)
  /\ IF Done(cursor') THEN pc' = "unmounted" /\ elements' = NoElements
                      ELSE pc' = pc /\ elements' = elements
  /\ UNCHANGED <<rng, onExitXR, exitButton, clicks, exitCalls, xrSession, calls>>

\* onClick={onExitXR}: the click calls the callback, and nothing else
OnClick ==
  /\ exitCalls' = exitCalls + 1
  /\ UNCHANGED <<rng, pc, cursor, onExitXR, exitButton, xrSession, elements, inst,
                 calls>>

\* the user clicks the exit button
ClickExit ==
  /\ pc = "idle"
  /\ exitButton
  /\ clicks < MaxClicks
  /\ clicks' = clicks + 1
  /\ OnClick

\* <VRButton store={xrStore} />
EnterVR ==
  /\ pc = "idle"
  /\ xrSession = "none"
  /\ xrSession' = "immersive-vr"
  /\ UNCHANGED <<rng, pc, cursor, onExitXR, exitButton, clicks, exitCalls, elements, inst,
                 calls>>

\* <ARButton store={xrStore} />
EnterAR ==
  /\ pc = "idle"
  /\ xrSession = "none"
  /\ xrSession' = "immersive-ar"
  /\ UNCHANGED <<rng, pc, cursor, onExitXR, exitButton, clicks, exitCalls, elements, inst,
                 calls>>

\* the XR runtime ends the session
EndSession ==
  /\ pc = "idle"
  /\ xrSession # "none"
  /\ xrSession' = "none"
  /\ UNCHANGED <<rng, pc, cursor, onExitXR, exitButton, clicks, exitCalls, elements, inst,
                 calls>>

Next ==
  \/ \E cb \in BOOLEAN : MountScene(cb)
  \/ \E cb \in BOOLEAN : RerenderScene(cb)
  \/ RenderChild
  \/ UnmountScene
  \/ UnmountChild
  \/ ClickExit
  \/ EnterVR
  \/ EnterAR
  \/ EndSession

Spec == Init /\ [][Next]_vars

\* The rendering alone: the parent mounts, re-renders and unmounts the scene, and no
\* button is clicked.  The steps left out change none of rng, elements and inst.
NextScene ==
  \/ \E cb \in BOOLEAN : MountScene(cb)
  \/ \E cb \in BOOLEAN : RerenderScene(cb)
  \/ RenderChild
  \/ UnmountScene
  \/ UnmountChild

SceneSpec == Init /\ [][NextScene]_vars


(***************************************************************************)
(* Properties.                                                             *)
(***************************************************************************)
Live == DOMAIN inst

\* the memoized values of a live instance, in hook order (the dependencies kept
\* beside a value are themselves memoized values)
Style(i) == i.hooks

\* d (a numerator over 1000*RandRes) lies in [lo/1000, hi/1000]
InBand(d, lo, hi) == lo * RandRes <= d /\ d <= hi * RandRes

Mounted == pc \in {"children", "idle", "unmounting"}

Groups == {GroupOrder[n] : n \in 1..Len(GroupOrder)}
RingGroups == {g \in Groups : Site(g).policy = "ring"}
DiscGroups == {g \in Groups : Site(g).policy = "disc"}

\* C1: an instance that is live before and after a step has the same memoized style
\* values after it as before: a re-render of a mounted generator instance never
\* re-randomizes size factor, height factor, colour, fruits or cluster.
C1_StyleStable ==
  [][\A k \in Live : k \in DOMAIN inst' => Style(inst'[k]) = Style(inst[k])]_vars

\* a FruitPlant and a SmallPlant instance have been rendered a second time
C1_Witness ==
  /\ \E k \in Live : inst[k].component = "FruitPlant" /\ inst[k].renderCount >= 2
  /\ \E k \in Live : inst[k].component = "SmallPlant" /\ inst[k].renderCount >= 2

\* C2: an instance that is live before and after a step is given the same position
\* and rotation after it as before.
C2_PlacementStable ==
  [][\A k \in Live : k \in DOMAIN inst' => inst'[k].props = inst[k].props]_vars

\* C3: a ring block of N items yields N descriptors whose distance is in the band of
\* its call site, for N = 0 (none) up to MaxN and for the counts of the scene: 20
\* flowers in [2.5, 4.0], 15 fruit plants in [4, 6], 12 trees in [6.5, 8.5].
C3_RingBand ==
  /\ \A g \in RingGroups : \A N \in 0..MaxN :
       LET p == Placement(g, N, rng)
       IN  /\ Len(p) = N
           /\ \A j \in 1..N : InBand(p[j].position.distance,
                                     Site(g).base, Site(g).base + Site(g).span)
  /\ Mounted =>
       /\ Len(elements["flower"]) = 20
       /\ \A j \in 1..20 : InBand(elements["flower"][j].position.distance, 2500, 4000)
       /\ Len(elements["fruit"]) = 15
       /\ \A j \in 1..15 : InBand(elements["fruit"][j].position.distance, 4000, 6000)
       /\ Len(elements["tree"]) = 12
       /\ \A j \in 1..12 : InBand(elements["tree"][j].position.distance, 6500, 8500)

\* the scene is rendered, with a ring flower at the inner edge of its band (the draw
\* 0) and a ring tree placed with the largest draw
C3_Witness ==
  /\ pc = "idle"
  /\ \E j \in 1..Len(elements["flower"]) :
       elements["flower"][j].position.distance = 2500 * RandRes
  /\ \E j \in 1..Len(elements["tree"]) :
       elements["tree"][j].position.distance = Fixed(6500, 2000, RandRes - 1)


\* the angle a is exactly n/d of a full turn
IsTurn(a, n, d) == a.num * d = n * a.den

\* the angle b is exactly 1/N of a full turn past the angle a
Apart(a, b, N) == (b.num * a.den - a.num * b.den) * N = a.den * b.den

\* C4: in a ring block of N items the angle at index i is exactly i/N of a full turn
\* (2*pi*i/N) in every state of the generator behind Math.random(), so consecutive angles are 2*pi/N apart; the 20
\* ring flowers of the scene are 2*pi/20 apart, at a distance in [2.5, 4.0].
C4_RingAngles ==
  /\ \A g \in RingGroups : \A N \in 1..MaxN :
       LET p == Placement(g, N, rng)
       IN  /\ \A j \in 1..N : IsTurn(p[j].position.angle, j - 1, N)
           /\ \A j \in 1..(N - 1) : Apart(p[j].position.angle, p[j + 1].position.angle, N)
  /\ Mounted =>
       /\ Len(elements["flower"]) = 20
       /\ \A j \in 1..20 :
            /\ IsTurn(elements["flower"][j].position.angle, j - 1, 20)
            /\ InBand(elements["flower"][j].position.distance, 2500, 4000)
       /\ \A j \in 1..19 : Apart(elements["flower"][j].position.angle,
                                 elements["flower"][j + 1].position.angle, 20)

\* the scene is rendered and two neighbouring ring flowers got different distances
C4_Witness ==
  /\ pc = "idle"
  /\ \E j \in 1..(Len(elements["flower"]) - 1) :
       elements["flower"][j].position.distance # elements["flower"][j + 1].position.distance

\* the angle a is in [0, 2*pi)
InTurn(a) == 0 <= a.num /\ a.num < a.den

\* each pair of an angle draw and a distance draw is the outcome of one iteration of
\* a disc block for some state of the generator
DiscDrawsIndependent ==
  \A g \in DiscGroups : \A ka, kd \in 0..(RandRes - 1) : \E s \in Seeds :
    LET d == DiscItem(g, Site(g), 1, s, 0).position
    IN  d.angle = RandomAngle(ka) /\ d.distance = Fixed(Site(g).base, Site(g).span, kd)

\* C5: a disc block of N items yields N descriptors (none for N = 0), each with a
\* distance in the band of its call site and an angle in [0, 2*pi), and the angle and
\* the distance come from separate draws: every pair of draws occurs.  In the scene:
\* 40 small plants in [1.5, 8.5], 25 flowers in [1.5, 7.5], 18 fruit plants in [2, 7].
C5_Disc ==
  /\ \A g \in DiscGroups : \A N \in 0..MaxN :
       LET p == Placement(g, N, rng)
       IN  /\ Len(p) = N
           /\ \A j \in 1..N :
                /\ InBand(p[j].position.distance, Site(g).base, Site(g).base + Site(g).span)
                /\ InTurn(p[j].position.angle)
  /\ DiscDrawsIndependent
  /\ Mounted =>
       /\ Len(elements["small"]) = 40
       /\ Len(elements["flower-extra"]) = 25
       /\ Len(elements["fruit-extra"]) = 18
       /\ \A j \in 1..40 : InBand(elements["small"][j].position.distance, 1500, 8500)
       /\ \A j \in 1..25 : InBand(elements["flower-extra"][j].position.distance, 1500, 7500)
       /\ \A j \in 1..18 : InBand(elements["fruit-extra"][j].position.distance, 2000, 7000)
       /\ \A g \in DiscGroups : \A j \in 1..Len(elements[g]) :
            InTurn(elements[g][j].position.angle)

\* the scene is rendered with a small plant at angle 0 placed with the largest
\* distance draw, and another at the inner edge of the band
C5_Witness ==
  /\ pc = "idle"
  /\ \E j \in 1..Len(elements["small"]) :
       /\ elements["small"][j].position.angle.num = 0
       /\ elements["small"][j].position.distance = Fixed(1500, 7000, RandRes - 1)
  /\ \E j \in 1..Len(elements["small"]) :
       elements["small"][j].position.distance = 1500 * RandRes

\* C6: the size factor of every live Tree is in [0.8, 1.4] and the height factor of
\* every live FruitPlant is in [0.7, 1.3].
C6_Ranges ==
  \A k \in Live :
    /\ inst[k].component = "Tree" => InBand(inst[k].hooks[1].value, 800, 1400)
    /\ inst[k].component = "FruitPlant" => InBand(inst[k].hooks[2].value, 700, 1300)

\* all trees and fruit plants of the scene are live, one tree has the smallest size
\* factor and one fruit plant the height factor of the largest draw
C6_Witness ==
  /\ pc = "idle"
  /\ \E k \in Live : inst[k].component = "Tree" /\ inst[k].hooks[1].value = 800 * RandRes
  /\ \E k \in Live : /\ inst[k].component = "FruitPlant"
                     /\ inst[k].hooks[2].value = Fixed(700, 600, RandRes - 1)


Components == {"Tree", "Flower", "FruitPlant", "SmallPlant"}

\* the topologies of the live instances of a component
Shapes(name) ==
  {Topology(name, inst[k].hooks) : k \in {h \in Live : inst[h].component = name}}

\* C7 as stated: any two live instances of the same generator contain the same number
\* of trunk, foliage, fruit, petal and cluster primitives.
C7_FixedTopology == \A name \in Components : Cardinality(Shapes(name)) <= 1

\* C7 as amended: every Tree is one trunk and one foliage cone, every Flower one stem,
\* six petals and one centre; a FruitPlant is one trunk, one foliage cone and 4 to 6
\* fruits, a SmallPlant 5 to 8 cluster spheres.
C7_Topology ==
  \A k \in Live :
    LET top == Topology(inst[k].component, inst[k].hooks)
    IN  /\ inst[k].component = "Tree" =>
             top = [trunk |-> 1, foliage |-> 1, fruit |-> 0, petal |-> 0,
                    centre |-> 0, cluster |-> 0]
        /\ inst[k].component = "Flower" =>
             top = [trunk |-> 1, foliage |-> 0, fruit |-> 0, petal |-> 6,
                    centre |-> 1, cluster |-> 0]
        /\ inst[k].component = "FruitPlant" =>
             /\ top.fruit \in 4..6
             /\ top.trunk = 1 /\ top.foliage = 1
             /\ top.petal = 0 /\ top.centre = 0 /\ top.cluster = 0
        /\ inst[k].component = "SmallPlant" =>
             /\ top.cluster \in 5..8
             /\ top.trunk = 0 /\ top.foliage = 0
             /\ top.fruit = 0 /\ top.petal = 0 /\ top.centre = 0

\* the whole scene is live, with two fruit plants of 4 and of 6 fruits and two small
\* plants of different cluster sizes
C7_Witness ==
  /\ pc = "idle"
  /\ \E a, b \in Live :
       /\ inst[a].component = "FruitPlant" /\ Len(inst[a].hooks[3].value) = 4
       /\ inst[b].component = "FruitPlant" /\ Len(inst[b].hooks[3].value) = 6
  /\ Cardinality(Shapes("SmallPlant")) >= 2
  /\ Cardinality(Shapes("Tree")) = 1
  /\ Cardinality(Shapes("Flower")) = 1

\* the blocks that produced elements in the latest call of XRScene
Invoked == {g \in Groups : Len(elements[g]) > 0}

\* the invoked blocks whose elements are all of component c, all sampled by policy p
Tier(c, p) ==
  {g \in Invoked : \A j \in 1..Len(elements[g]) :
     elements[g][j].component = c /\ elements[g][j].policy = p}

\* C8 as stated: six groups, of which two ring tiers of flowers, one ring tier of fruit
\* plants, one ring tier of trees, two disc-scattered fill groups and ground cover.
C8_SixGroupsTwoFlowerRings ==
  pc = "idle" =>
    /\ Cardinality(Invoked) = 6
    /\ Cardinality(Tier("Flower", "ring")) = 2
    /\ Cardinality(Tier("FruitPlant", "ring")) = 1
    /\ Cardinality(Tier("Tree", "ring")) = 1
    /\ Cardinality(Tier("Flower", "disc") \cup Tier("FruitPlant", "disc")) = 2
    /\ Cardinality(Tier("SmallPlant", "disc")) = 1

\* C8 as amended: every call of XRScene places exactly six groups: one ring tier of
\* flowers, one of fruit plants, one of trees, and three disc-scattered groups (small
\* plants as ground cover, extra flowers, extra fruit plants); the same block is
\* sampled the same way in every call.
C8_SixGroups ==
  Mounted =>
    /\ Cardinality(Invoked) = 6
    /\ Tier("Flower", "ring") = {"flower"}
    /\ Tier("FruitPlant", "ring") = {"fruit"}
    /\ Tier("Tree", "ring") = {"tree"}
    /\ Tier("SmallPlant", "disc") = {"small"}
    /\ Tier("Flower", "disc") = {"flower-extra"}
    /\ Tier("FruitPlant", "disc") = {"fruit-extra"}
    /\ Tier("SmallPlant", "ring") = {} /\ Tier("Tree", "disc") = {}

\* XRScene has been called a second time and all six groups are placed
C8_Witness == pc = "idle" /\ calls >= 2 /\ Invoked = Groups

\* C9: while XRScene is rendered the exit button is there exactly when onExitXR was
\* supplied; every click on it calls the callback once and leaves the XR store, the
\* placements, the instances and everything else of the scene alone; the callback is
\* called by nothing but a click, so never when it was not supplied.
C9_ExitForwarded ==
  /\ [](pc \in {"children", "idle"} => (exitButton <=> onExitXR))
  /\ [](exitCalls = clicks)
  /\ [][clicks' # clicks =>
          /\ exitButton /\ onExitXR
          /\ clicks' = clicks + 1
          /\ exitCalls' = exitCalls + 1
          /\ UNCHANGED <<rng, pc, cursor, onExitXR, exitButton, xrSession, elements,
                         inst, calls>>]_vars
  /\ [][exitCalls' # exitCalls => clicks' # clicks]_vars

\* the button was clicked during an XR session and the callback has been called once
C9_Witness == clicks = 1 /\ exitCalls = 1 /\ xrSession # "none" /\ pc = "idle"

\* C10: a step that mounts, re-renders or unmounts one instance leaves every other
\* live instance as it was, and no other step changes any instance.
C10_SiblingFrame ==
  [][\A k \in Live :
       \/ pc \in {"children", "unmounting"} /\ k = ChildAt(elements, cursor).key
       \/ k \in DOMAIN inst' /\ inst'[k] = inst[k]]_vars

\* in the middle of a re-render pass: some instances were rendered twice, the others
\* are live and still wait for their second render
C10_Witness ==
  /\ pc = "children"
  /\ \E k \in Live : inst[k].renderCount = 2
  /\ \E k \in Live : inst[k].renderCount = 1


\* the colours of a palette
Colours(palette) == {palette[n] : n \in DOMAIN palette}

\* the palette of a generator, and the hook cell that keeps its colour
PaletteOf(name) ==
  CASE name = "Flower"     -> petalColors
    [] name = "FruitPlant" -> fruitColors
    [] name = "SmallPlant" -> greenShades

\* for every draw the index floor(r * length) is in 0 .. length-1 and the colour read
\* is one of the palette
IndexInRange ==
  \A name \in {"Flower", "FruitPlant", "SmallPlant"} : \A k \in 0..(RandRes - 1) :
    /\ FloorScaled(k, Len(PaletteOf(name))) \in 0..(Len(PaletteOf(name)) - 1)
    /\ Pick(PaletteOf(name), k) \in Colours(PaletteOf(name))

\* C11: palette selection never fails: the index of every draw lies in the palette (7
\* petal colours, 4 fruit colours, 4 greens), and the colour of every live Flower,
\* FruitPlant and SmallPlant is a member of its palette, never undefined; the fruits
\* and the cluster spheres carry that colour.
C11_PaletteMember ==
  /\ IndexInRange
  /\ Len(petalColors) = 7 /\ Len(fruitColors) = 4 /\ Len(greenShades) = 4
  /\ \A k \in Live :
       inst[k].component # "Tree" =>
         /\ inst[k].hooks[1].value \in Colours(PaletteOf(inst[k].component))
         /\ inst[k].hooks[1].value # "undefined"
         /\ inst[k].component = "FruitPlant" =>
              \A n \in DOMAIN inst[k].hooks[3].value :
                inst[k].hooks[3].value[n].color = inst[k].hooks[1].value
         /\ inst[k].component = "SmallPlant" =>
              \A n \in DOMAIN inst[k].hooks[2].value :
                inst[k].hooks[2].value[n].color = inst[k].hooks[1].value

\* the whole scene is live; a flower, a fruit plant and a small plant got the colour
\* of the largest draw, and others the first colour of the palette
C11_Witness ==
  /\ pc = "idle"
  /\ \A name \in {"Flower", "FruitPlant", "SmallPlant"} :
       /\ \E k \in Live : /\ inst[k].component = name
                          /\ inst[k].hooks[1].value = Pick(PaletteOf(name), RandRes - 1)
       /\ \E k \in Live : /\ inst[k].component = name
                          /\ inst[k].hooks[1].value = PaletteOf(name)[1]


\* the distances from the centre of the descriptors of a block
Distances(block) == {block[j].position.distance : j \in 1..Len(block)}

\* the distance of the first item of ring block g when the generator is in state s
FirstDistance(g, s) == RingItem(g, Site(g), Site(g).count, s, 0).position.distance

\* whatever the three blocks draw, flower < 4 <= fruit plant < 6 < 6.5 <= tree
TiersOrdered ==
  \A sf \in Seeds : \A sp \in Seeds : \A st \in Seeds :
    /\ FirstDistance("flower", sf) < 4000 * RandRes
    /\ 4000 * RandRes <= FirstDistance("fruit", sp)
    /\ FirstDistance("fruit", sp) < 6000 * RandRes
    /\ 6500 * RandRes <= FirstDistance("tree", st)

\* C12: the three ring tiers are radially ordered in every render and for every draw:
\* every ring flower is closer to the centre than 4, every ring fruit plant is at 4
\* or farther and closer than 6, every ring tree is at 6.5 or farther; so each ring
\* fruit plant is farther than each ring flower and each ring tree farther than each
\* ring fruit plant.
C12_TiersOrdered ==
  /\ TiersOrdered
  /\ Mounted =>
       LET F == Distances(elements["flower"])
           P == Distances(elements["fruit"])
           T == Distances(elements["tree"])
       IN  /\ \A f \in F : f < 4000 * RandRes
           /\ \A d \in P : 4000 * RandRes <= d /\ d < 6000 * RandRes
           /\ \A d \in T : 6500 * RandRes <= d
           /\ \A f \in F : \A d \in P : f < d
           /\ \A d \in P : \A e \in T : d < e

\* the scene is rendered with a ring flower at the outer end of its draws and a ring
\* fruit plant at the inner edge 4, and with a ring fruit plant at the outer end of
\* its draws and a ring tree at the inner edge 6.5
C12_Witness ==
  /\ pc = "idle"
  /\ Fixed(2500, 1500, RandRes - 1) \in Distances(elements["flower"])
  /\ 4000 * RandRes \in Distances(elements["fruit"])
  /\ Fixed(4000, 2000, RandRes - 1) \in Distances(elements["fruit"])
  /\ 6500 * RandRes \in Distances(elements["tree"])


\* the keys of the scene: `${g}-${i}` for i from 0 below the count of block g
SceneKeys == UNION {{Key(g, i) : i \in 0..(Site(g).count - 1)} : g \in Groups}

\* the element of the current render that carries key k
ElementOf(k) == elements[k.prefix][k.index + 1]

\* the keys are 20 + 15 + 12 + 40 + 25 + 18 = 130 different ones
KeysUnique ==
  /\ Cardinality(SceneKeys) = 130
  /\ Site("flower").count = 20 /\ Site("fruit").count = 15 /\ Site("tree").count = 12
  /\ Site("small").count = 40 /\ Site("flower-extra").count = 25
  /\ Site("fruit-extra").count = 18

\* every render of the scene returns the same keys, the j-th element of block g with
\* the key of g and j - 1
KeysFromIndex ==
  Mounted => \A g \in Groups :
    /\ Len(elements[g]) = Site(g).count
    /\ \A j \in 1..Len(elements[g]) : elements[g][j].key = Key(g, j - 1)

\* a step of a mounted scene that stays mounted: the scene is called again, or one of
\* its children is rendered
StaysMounted == pc \in {"idle", "children"} /\ pc' \in {"idle", "children"}

\* the live instances stay live, each with the style it drew at mount and without a
\* new mount (the count of its renders is kept or goes up by one)
InstancesKept ==
  \A k \in Live :
    /\ k \in DOMAIN inst'
    /\ inst'[k].component = inst[k].component
    /\ Style(inst'[k]) = Style(inst[k])
    /\ inst'[k].renderCount \in {inst[k].renderCount, inst[k].renderCount + 1}

\* C13: across re-renders of a mounted XRScene the set of generator instances is
\* unchanged: the keys are unique and come from the group and the index alone (130 in
\* total), a call of XRScene leaves every live instance as it is, and no step of a
\* mounted scene unmounts or remounts an instance or changes its style, even when the
\* position and rotation it is given change.
C13_InstancesStable ==
  /\ [](KeysUnique /\ KeysFromIndex)
  /\ [][pc = "idle" /\ pc' = "children" => inst' = inst]_vars
  /\ [][StaysMounted => InstancesKept]_vars

\* a re-render is under way with all 130 instances live: one has been rendered a
\* second time, at another position than the one of its mount, and one is still to
\* be rendered and is given another position than the one it has
C13_Witness ==
  /\ pc = "children"
  /\ Live = SceneKeys
  /\ \E k \in Live : /\ inst[k].renderCount = 2
                     /\ inst[k].props.position = ElementOf(k).position
  /\ \E k \in Live : /\ inst[k].renderCount = 1
                     /\ inst[k].props.position # ElementOf(k).position


\* an upper bound of |x| = |cos(angle)| * distance and of |z| = |sin(angle)| * distance
\* of position={[x, -1, z]}: they are the distance or 0 on the axes (the angle a
\* multiple of a quarter turn), and at most the distance elsewhere
AbsX(p) == IF 4 * p.angle.num = p.angle.den \/ 4 * p.angle.num = 3 * p.angle.den
           THEN 0 ELSE p.distance
AbsZ(p) == IF p.angle.num = 0 \/ 2 * p.angle.num = p.angle.den THEN 0 ELSE p.distance

\* p is on the plane of the grid, at 1.5 or more and less than 8.5 from the centre,
\* and over the grid: |x| below half its width, |z| below half its depth
OnGrid(p) ==
  /\ p.y = Grid.position[2]
  /\ 1500 * RandRes <= p.distance
  /\ p.distance < 8500 * RandRes
  /\ 2 * AbsX(p) < Grid.args[1] * 1000 * RandRes
  /\ 2 * AbsZ(p) < Grid.args[2] * 1000 * RandRes

\* whatever an iteration of a block draws, its item is on the grid
DrawsOnGrid ==
  \A g \in Groups : \A s \in Seeds : \A N \in 1..MaxN :
    OnGrid(Placement(g, N, s)[N].position)

\* C14: in every render and for every draw, every placed instance of the six groups
\* is on the plane of the grid (y = -1, the y of the grid), at a horizontal distance
\* from the centre in [1.5, 8.5): never closer than 1.5 to the potted plant in the
\* centre, and with |x| and |z| below 10, inside the 20 x 20 grid.
C14_OnGrid ==
  /\ DrawsOnGrid
  /\ Grid.position[2] = -1 /\ Grid.args = <<20, 20>>
  /\ Mounted =>
       \A g \in Groups : \A j \in 1..Len(elements[g]) : OnGrid(elements[g][j].position)

\* the scene is rendered with a small plant at 1.5 from the centre, the closest there
\* is, and with the first ring tree, on the x axis, placed with the largest draw: its
\* |x| is its distance
C14_Witness ==
  /\ pc = "idle"
  /\ 1500 * RandRes \in Distances(elements["small"])
  /\ elements["tree"][1].position.distance = Fixed(6500, 2000, RandRes - 1)
  /\ AbsX(elements["tree"][1].position) = Fixed(6500, 2000, RandRes - 1)
  /\ AbsZ(elements["tree"][1].position) = 0

====
